---- MODULE Spec2Model ----
(***************************************************************************)
(* State-machine model of WavePy3: the monolithic WavePy class             *)
(* (src/WavePy.py) and the Atmos aggregator (src/wavepy3/atmos/atmos.py).  *)
(*                                                                         *)
(* Numbers.  Lengths, pitches and their quotients are exact rationals,     *)
(* records [num, den] in lowest terms with den > 0, so that the divisions  *)
(* of the geometry planner are computed and not assumed.  Floating-point   *)
(* rounding is not modelled.  Arrays keep Python's 0-based indices: an     *)
(* array of length n is a function on 0..n-1.                              *)
(***************************************************************************)
EXTENDS Integers, Sequences, FiniteSets, TLC

VARIABLES wp,       \* the WavePy object (record of its attributes)
          ret,      \* value returned (or exception raised) by the last call
          lastOp,   \* the last public call on the WavePy object, with arguments
          args,     \* arguments of the Atmos constructor call
          atm,      \* attributes the Atmos constructor has assigned
          calls,    \* screen-synthesis calls made so far, in order
          status,   \* which object is live, and the outcome of Atmos.__init__
          err       \* what the exception raised by Atmos.__init__ names

vars == <<wp, ret, lastOp, args, atm, calls, status, err>>
wpVars == <<wp, ret, lastOp>>
atmVars == <<args, atm, calls, status, err>>

(***************************************************************************)
(* Bounds of the explored inputs.                                          *)
(***************************************************************************)
MaxScr == 3        \* NumScr and len(z) range over 1..MaxScr
MaxDist == 1       \* PropDist ranges over 1..MaxDist
MaxPitch == 3      \* dx, Rdx, dx_0, dx_n range over 1..MaxPitch
MaxHalfN == 1      \* N ranges over the even sizes 2, 4, .., 2*MaxHalfN
MaxRytov == 2      \* rytov numbers range over 1..MaxRytov
MaxGrid == 4       \* the screen generators are run on N in 1..MaxGrid

(***************************************************************************)
(* Exact rational arithmetic.                                              *)
(***************************************************************************)
Abs(x) == IF x < 0 THEN -x ELSE x

RECURSIVE GCD(_, _)
GCD(a, b) == IF b = 0 THEN a ELSE GCD(b, a % b)

\* the rational n/d (d # 0) in lowest terms with positive denominator
Rat(n, d) ==
    LET g == GCD(Abs(n), Abs(d))
        s == IF d < 0 THEN -1 ELSE 1
    IN  [num |-> (s * n) \div g, den |-> (s * d) \div g]

RatInt(n) == [num |-> n, den |-> 1]
RatAdd(a, b) == Rat(a.num * b.den + b.num * a.den, a.den * b.den)
RatSub(a, b) == Rat(a.num * b.den - b.num * a.den, a.den * b.den)
RatMul(a, b) == Rat(a.num * b.num, a.den * b.den)

\* a / b as numpy computes it: a zero divisor gives inf or nan, carried here
\* as a record with den = 0 (the only non-finite values of the model)
RatDiv(a, b) ==
    IF b.num = 0 THEN [num |-> a.num, den |-> 0]
    ELSE Rat(a.num * b.den, a.den * b.num)

RatFinite(a) == a.den # 0
RatPos(a) == a.den > 0 /\ a.num > 0
RatLeq(a, b) == a.num * b.den <= b.num * a.den

\* sum of the first n entries of the 0-based array f
RECURSIVE SumTo(_, _)
SumTo(f, n) == IF n = 0 THEN RatInt(0) ELSE RatAdd(SumTo(f, n - 1), f[n - 1])

Len0(f) == Cardinality(DOMAIN f)

(***************************************************************************)
(* WavePy.__init__ : propagation geometry                                  *)
(***************************************************************************)
\* np.ones(NumScr + 2) * (PropDist / NumScr), then the two slice assignments
dzPropsOf(NumScr, PropDist) ==
    LET step == RatDiv(RatInt(PropDist), RatInt(NumScr))
        half == RatMul(Rat(1, 2), step)
        d0 == [i \in 0..(NumScr + 1) |-> step]
        d1 == [i \in 0..(NumScr + 1) |-> IF i \in 0..1 THEN half ELSE d0[i]]
        d2 == [i \in 0..(NumScr + 1) |->
                  IF i \in NumScr..(NumScr + 1) THEN half ELSE d1[i]]
    IN  d2

\* PropLocs[0] = 0, PropLocs[zval + 1] = PropLocs[zval] + dzProps[zval]
PropLocsOf(NumScr, dz) == [i \in 0..(NumScr + 2) |-> SumTo(dz, i)]

FracPropDistOf(locs, PropDist) ==
    [i \in DOMAIN locs |-> RatDiv(locs[i], RatInt(PropDist))]

PropSamplingOf(frac, dx, Rdx) ==
    [i \in DOMAIN frac |->
        RatAdd(RatMul(RatInt(Rdx - dx), frac[i]), RatInt(dx))]

\* PropSampling[1:len] / PropSampling[0:len-1]
SamplingRatioOf(ps) ==
    [i \in 0..(Len0(ps) - 2) |-> RatDiv(ps[i + 1], ps[i])]

(***************************************************************************)
(* WavePy.__init__ : derived turbulence quantities.                        *)
(*                                                                         *)
(* Cn2 is carried in units of 1/(1.23 * k^(7/6) * PropDist^(11/6)), so     *)
(* that 1.23 * Cn2 * k^(7/6) * PropDist^(11/6) is the integer Cn2 itself.  *)
(* k, PropDist, NumScr and L0 never change after construction, and every   *)
(* other derived formula is an injective function of Cn2 alone; its value  *)
(* is the term [formula, Cn2]: two values of one formula are equal exactly *)
(* when they were computed from the same Cn2.                              *)
(***************************************************************************)
r0Of(Cn2) == [formula |-> "(0.423*k^2*Cn2*PropDist)^(-3/5)", Cn2 |-> Cn2]
r0scrnOf(Cn2) ==
    [formula |-> "(0.423*k^2*Cn2*PropDist/NumScr)^(-3/5)", Cn2 |-> Cn2]
log_ampl_varOf(Cn2) ==
    [formula |-> "0.3075*k^2*PropDist^(11/6)*Cn2", Cn2 |-> Cn2]
phase_varOf(Cn2) ==
    [formula |-> "0.78*Cn2*k^2*PropDist*L0^(-5/3)", Cn2 |-> Cn2]
rho_0Of(Cn2) == [formula |-> "(1.46*Cn2*k^2*PropDist)^(-5/3)", Cn2 |-> Cn2]

\* np.sqrt on the perfect squares the model draws Cn2 from
Sqrt(n) == CHOOSE r \in 0..n : r * r = n
rytovNumOf(Cn2) == Sqrt(Cn2)

(***************************************************************************)
(* Fields and screens.  An N x N array is carried by its side length and   *)
(* by the expression that produced it: a field is the array it started     *)
(* from (base) and the sequence of operations applied to it since (ops).   *)
(***************************************************************************)
SourceName(simOption) ==
    CASE simOption = 0 -> "PlaneSource"
      [] simOption = 1 -> "PointSource"
      [] simOption = 2 -> "CollimatedGaussian"
      [] simOption = 3 -> "FlattePointSource"

Array(id, side) == [id |-> id, side |-> side]
Field(base, ops) == [base |-> base, ops |-> ops]

\* the source kinds explored (simOption = 0 is the default)
SimOptions == {0}

WavePyInit(simOption, N, NumScr, dx, PropDist, Cn2, Rdx) ==
    LET dz == dzPropsOf(NumScr, PropDist)
        locs == PropLocsOf(NumScr, dz)
        frac == FracPropDistOf(locs, PropDist)
        ps == PropSamplingOf(frac, dx, Rdx)
    IN  [N |-> N, dx |-> dx, Rdx |-> Rdx, NumScr |-> NumScr,
         PropDist |-> PropDist, Cn2 |-> Cn2, simOption |-> simOption,
         Output |-> Field(Array("zeros", N), <<>>),
         r1 |-> Array("r1", N),
         Source |-> Array(SourceName(simOption), N),
         rR |-> Array("rR", N),
         dzProps |-> dz, PropLocs |-> locs, FracPropDist |-> frac,
         PropSampling |-> ps,
         SamplingRatioBetweenScreen |-> SamplingRatioOf(ps),
         r0 |-> r0Of(Cn2), r0scrn |-> r0scrnOf(Cn2),
         log_ampl_var |-> log_ampl_varOf(Cn2),
         phase_var |-> phase_varOf(Cn2), rho_0 |-> rho_0Of(Cn2),
         rytovNum |-> rytovNumOf(Cn2),
         rytovVar |-> rytovNumOf(Cn2) * rytovNumOf(Cn2),
         rytov |-> 0]      \* attribute rytov does not exist yet

(***************************************************************************)
(* Results of calls.                                                       *)
(***************************************************************************)
Return(v) == [exc |-> "none", value |-> v]
Raise(e) == [exc |-> e, value |-> "none"]
Call(name, arg) == [name |-> name, arg |-> arg]

(***************************************************************************)
(* Phase terms.  [exps, phz] is np.exp(1j * .) applied exps times to the   *)
(* real phase array of screen phz; exps = 0 is the raw phase, exps = 1 a   *)
(* transmittance of unit modulus.                                          *)
(***************************************************************************)
Phase(k) == [exps |-> 0, phz |-> k]
ExpI(t) == [t EXCEPT !.exps = @ + 1]
NoFactor == [exps |-> 0, phz |-> -1]
Zero == RatInt(0)

\* an N x N x NumScr stack whose slice k is ExpI applied exps times to phase k
StackOf(side, NumScr, exps) ==
    [side |-> side,
     scr |-> [k \in 0..(NumScr - 1) |-> [exps |-> exps, phz |-> k]]]

\* the all-zero phase array (no generated screen: phz = -1), and the stack
\* np.zeros((N, N, NumScr)) made of it
ZeroPhase == Phase(-1)
ZeroStack(side, NumScr) ==
    [side |-> side, scr |-> [k \in 0..(NumScr - 1) |-> ZeroPhase]]

\* np.exp(1j * 0) is the all-ones array
IsUnity(t) == t = ExpI(ZeroPhase)

\* one operation applied to the field
Op(op, idx, dz, ratio, pitch, factor) ==
    [op |-> op, idx |-> idx, dz |-> dz, ratio |-> ratio, pitch |-> pitch,
     factor |-> factor]

(***************************************************************************)
(* WavePy.SplitStepProp and WavePy.VacuumProp.  N is even and a = N/2 is   *)
(* taken as the integer half-width of the frequency index grid, as the     *)
(* range(-a, a) of the source needs it to be (under true division a is a   *)
(* float and range(-a, a) raises TypeError before the field is touched).   *)
(***************************************************************************)
\* P0 = exp(1j * (k / (2*dzProps[0])) * r1^2 * (1 - SamplingRatio[0]))
P0(self) ==
    Op("P0", 0, self.dzProps[0], self.SamplingRatioBetweenScreen[0], Zero,
       NoFactor)

\* PF = exp(1j * (k / (2*dzProps[-1])) * rR^2 * SamplingRatio[-1])
PF(self) ==
    LET last == Len0(self.dzProps) - 1
        lastR == Len0(self.SamplingRatioBetweenScreen) - 1
    IN  Op("PF", last, self.dzProps[last],
           self.SamplingRatioBetweenScreen[lastR], Zero, NoFactor)

\* forward transform, QuadPhaseFac, inverse transform, super-Gaussian window
Diffract(self, pcount) ==
    << Op("fft", pcount, Zero, Zero, Zero, NoFactor),
       Op("QuadPhaseFac", pcount, self.dzProps[pcount],
          self.SamplingRatioBetweenScreen[pcount], self.PropSampling[pcount],
          NoFactor),
       Op("ifft", pcount, Zero, Zero, Zero, NoFactor),
       Op("sg", pcount, Zero, Zero, Zero, NoFactor) >>

\* multiplication by np.exp(1j * PhaseScreenStack[:, :, k])
Screen(stack, k) == Op("screen", k, Zero, Zero, Zero, ExpI(stack.scr[k]))

\* for pcount in range(1, len(self.PropLocs) - 2), from pcount on
RECURSIVE SplitStepLoop(_, _, _)
SplitStepLoop(self, stack, pcount) ==
    IF pcount >= Len0(self.PropLocs) - 2 THEN <<>>
    ELSE Diffract(self, pcount) \o << Screen(stack, pcount - 1) >>
         \o SplitStepLoop(self, stack, pcount + 1)

RECURSIVE VacuumLoop(_, _)
VacuumLoop(self, pcount) ==
    IF pcount >= Len0(self.PropLocs) - 2 THEN <<>>
    ELSE Diffract(self, pcount) \o VacuumLoop(self, pcount + 1)

\* the arrays multiplied together all have the same shape
ShapesAgree(self, sides) ==
    \A s \in sides \cup {self.r1.side, self.rR.side, self.Source.side} :
        s = self.N

SplitStepPropOf(self, Uin, PhaseScreenStack) ==
    IF ~ShapesAgree(self, {PhaseScreenStack.side}) THEN Raise("ValueError")
    ELSE Return(Field(self.Source,
                      << P0(self), Screen(PhaseScreenStack, 0) >>
                      \o SplitStepLoop(self, PhaseScreenStack, 1)
                      \o << PF(self) >>))

\* the array a field expression denotes: a multiplication by the all-ones
\* array leaves every element as it is
FieldValue(f) ==
    Field(f.base,
          SelectSeq(f.ops,
                    LAMBDA o : ~(o.op = "screen" /\ IsUnity(o.factor))))

\* VacuumProp with its loop started one plane late
VacuumPropOfLateStart(self) ==
    IF ~ShapesAgree(self, {}) THEN Raise("ValueError")
    ELSE Return(Field(self.Source,
                      << P0(self) >> \o VacuumLoop(self, 2) \o << PF(self) >>))

VacuumPropOf(self) ==
    IF ~ShapesAgree(self, {}) THEN Raise("ValueError")
    ELSE Return(Field(self.Source,
                      << P0(self) >> \o VacuumLoop(self, 1) \o << PF(self) >>))

(***************************************************************************)
(* Public operations of a constructed WavePy object.                       *)
(***************************************************************************)
ValidateN == 512

\* the value Validate assigns to r0scrn; no Cn2 enters it
ValidateR0scrn == [formula |-> "0.5*SideLen/20", Cn2 |-> 0]

SetCn2Rytov(UserRytov) ==
    /\ status = "wavepy"
    /\ LET rytov == UserRytov * UserRytov
           Cn2 == rytov      \* rytov / rytov_denom, in the units of Cn2
       IN  wp' = [wp EXCEPT !.rytovNum = UserRytov,
                            !.rytov = rytov,
                            !.Cn2 = Cn2,
                            !.r0 = r0Of(Cn2),
                            !.r0scrn = r0scrnOf(Cn2),
                            !.log_ampl_var = log_ampl_varOf(Cn2),
                            !.phase_var = phase_varOf(Cn2),
                            !.rho_0 = rho_0Of(Cn2)]
    /\ ret' = Return("None")
    /\ lastOp' = Call("SetCn2Rytov", UserRytov)
    /\ UNCHANGED atmVars

\* the two assignments come first; whether the averaging and plotting that
\* follow complete depends on the interpreter, and neither assigns to self
Validate(outcome) ==
    /\ status = "wavepy"
    /\ wp' = [wp EXCEPT !.r0scrn = ValidateR0scrn, !.N = ValidateN]
    /\ ret' = outcome
    /\ lastOp' = Call("Validate", 1)
    /\ UNCHANGED atmVars

(***************************************************************************)
(* WavePy.PhaseScreen: the sampled PSD.  Frequencies are in units of the   *)
(* grid spacing del_f = 1/(N*delta); theta = 0, so tx = fx and ty = fy,    *)
(* and the scalar frequency f of a cell is 0 exactly when fx = fy = 0.     *)
(* The N x N array PSD_phi is carried by its side, the set of its cells    *)
(* that were forced to zero, and the normalization applied to it; every    *)
(* other cell holds the positive density of its frequency.                 *)
(***************************************************************************)
\* entry i of np.arange(-N/2.0, N/2.0): N values from -N/2 in steps of 1
FreqAxis(N, i) == Rat(2 * i - N, 2)

\* np.floor(N/2)
cenOf(N) == N \div 2

Cells(N) == (0..(N - 1)) \X (0..(N - 1))

\* fx, fy = np.meshgrid(fx, -1*fx): the frequency of the cell [row, col]
CellFreq(N, cell) ==
    [fx |-> FreqAxis(N, cell[2]),
     fy |-> RatSub(RatInt(0), FreqAxis(N, cell[1]))]

\* the PSD sampled on the grid
SamplePSD(N) ==
    [side |-> N, zero |-> {},
     norm |-> [applied |-> FALSE, zeroedBefore |-> {}]]

\* PSD_phi = (tot_OK/tot_NOK) * PSD_phi, the sums taken over the grid as it
\* is at that point (zeroedBefore: the cells already forced to zero)
Renormalize(psd) ==
    [psd EXCEPT !.norm = [applied |-> TRUE, zeroedBefore |-> psd.zero]]

\* PSD_phi[r, c] = 0.0
ZeroCell(psd, r, c) == [psd EXCEPT !.zero = @ \cup {<<r, c>>}]

\* the PSD that filters the noise: cn = cn * np.sqrt(PSD_phi) * del_f
PSD_phiOf(N) ==
    ZeroCell(Renormalize(SamplePSD(N)), cenOf(N), cenOf(N))

PhaseScreen ==
    /\ status = "wavepy"
    /\ ret' = Return([kind |-> "PhaseScreen", side |-> wp.N,
                      r0scrn |-> wp.r0scrn, PSD_phi |-> PSD_phiOf(wp.N)])
    /\ lastOp' = Call("PhaseScreen", 0)
    /\ UNCHANGED <<wp, atmVars>>

SubHarmonicComp(nsub) ==
    /\ status = "wavepy"
    /\ ret' = Return([kind |-> "SubHarmonicComp", side |-> wp.N,
                      r0scrn |-> wp.r0scrn])
    /\ lastOp' = Call("SubHarmonicComp", nsub)
    /\ UNCHANGED <<wp, atmVars>>

VacuumProp ==
    /\ status = "wavepy"
    /\ ret' = VacuumPropOf(wp)
    /\ lastOp' = Call("VacuumProp", 0)
    /\ UNCHANGED <<wp, atmVars>>

SplitStepProp(Uin, PhaseScreenStack) ==
    /\ status = "wavepy"
    /\ ret' = SplitStepPropOf(wp, Uin, PhaseScreenStack)
    /\ lastOp' = Call("SplitStepProp",
                      [Uin |-> Uin, PhaseScreenStack |-> PhaseScreenStack])
    /\ UNCHANGED <<wp, atmVars>>

\* phz[:, :, idxscr] = loon * phz_lo + phz_hi for every screen, then
\* self.Output = self.SplitStepProp(self.Source, np.exp(1j * phz))
TurbSim ==
    /\ status = "wavepy"
    /\ LET phz == StackOf(wp.N, wp.NumScr, 0)
           stack == [phz EXCEPT !.scr = [k \in DOMAIN @ |-> ExpI(@[k])]]
           out == SplitStepPropOf(wp, wp.Source, stack)
       IN  /\ wp' = IF out.exc = "none" THEN [wp EXCEPT !.Output = out.value]
                    ELSE wp
           /\ ret' = IF out.exc = "none" THEN Return("None") ELSE out
    /\ lastOp' = Call("TurbSim", 0)
    /\ UNCHANGED atmVars

\* stacks a caller may hand to SplitStepProp: raw phases, transmittances
\* exp(1j * phase), or all zeros
StackKinds == {"phase", "transmittance", "zeros"}
CallerStack(self, kind) ==
    CASE kind = "phase" -> StackOf(self.N, self.NumScr, 0)
      [] kind = "transmittance" -> StackOf(self.N, self.NumScr, 1)
      [] kind = "zeros" -> ZeroStack(self.N, self.NumScr)

\* fields a caller may hand to SplitStepProp: two of its own, or the stored one
CallerFieldIds == {"Ua", "Ub", "Source"}
CallerField(self, id) ==
    IF id = "Source" THEN self.Source ELSE Array(id, self.N)

WavePyNew ==
    \E simOption \in SimOptions, h \in 1..MaxHalfN, NumScr \in 1..MaxScr,
       dx \in 1..MaxPitch, Rdx \in 1..MaxPitch, PropDist \in 1..MaxDist,
       r \in 1..MaxRytov :
        /\ wp = WavePyInit(simOption, 2 * h, NumScr, dx, PropDist, r * r, Rdx)
        /\ ret = Return("None")
        /\ lastOp = Call("__init__", 0)
        /\ status = "wavepy"
        /\ args = <<>> /\ atm = <<>> /\ calls = <<>> /\ err = "none"

WavePyNext ==
    \/ \E UserRytov \in 1..MaxRytov : SetCn2Rytov(UserRytov)
    \/ \E outcome \in {Return("None"), Raise("TypeError")} : Validate(outcome)
    \/ PhaseScreen
    \/ \E nsub \in {1, 5} : SubHarmonicComp(nsub)
    \/ VacuumProp
    \/ \E id \in CallerFieldIds, kind \in StackKinds :
          SplitStepProp(CallerField(wp, id), CallerStack(wp, kind))
    \/ TurbSim

(***************************************************************************)
(* Atmos (src/wavepy3/atmos/atmos.py).                                     *)
(*                                                                         *)
(* A dict is a function from its keys to its values.  An r0 value is       *)
(* carried as its fifth power, so that the factor n_scr^(3/5) of the       *)
(* per-screen decomposition is the exact integer factor n_scr^3.           *)
(***************************************************************************)
MaxR0 == 2         \* the r0 of the settings ranges over 1..MaxR0

R0(v) == [inf |-> FALSE, pow5 |-> v * v * v * v * v]
R0Inf == [inf |-> TRUE, pow5 |-> 0]      \* float('inf')

\* r0 / n_scr**(-3 / 5)
R0Screen(r0, n_scr) ==
    IF r0.inf THEN R0Inf
    ELSE [inf |-> FALSE, pow5 |-> r0.pow5 * n_scr * n_scr * n_scr]

\* {**lo, **hi}: the entries written later win
Merge(lo, hi) == hi @@ lo

Without(d, keys) == [k \in (DOMAIN d) \ keys |-> d[k]]

screen_method_dict == {"ft_sh", "ft", "vacuum"}
psd_dict == {"kolmogorov", "vonKarman", "modified_vonKarman", "wavepy_og"}

psd_input_dict ==
    [kolmogorov |-> <<>>, vonKarman |-> <<"L0">>,
     modified_vonKarman |-> <<"L0", "l0">>]

phase_screen_input_dict ==
    [vacuum |-> <<"N">>, ft |-> <<"N", "dx", "r0", "psd">>,
     ft_sh |-> <<"N", "dx", "n_subharm", "r0", "psd">>]

Range(seq) == {seq[i] : i \in DOMAIN seq}

None == [name |-> "None", params |-> <<>>]

\* Atmos.__psd_setup; a KeyError is reported as [KeyError |-> TRUE]
psd_setup(psd_name, settings) ==
    IF psd_name \notin psd_dict THEN [KeyError |-> TRUE, psd |-> None]
    ELSE IF psd_name \notin DOMAIN psd_input_dict
         THEN [KeyError |-> TRUE, psd |-> None]
    ELSE LET setting_names == psd_input_dict[psd_name]
         IN  IF ~(Range(setting_names) \subseteq DOMAIN settings)
             THEN [KeyError |-> TRUE, psd |-> None]
             ELSE [KeyError |-> FALSE,
                   psd |-> [name |-> psd_name,
                            params |-> [i \in DOMAIN setting_names |->
                                           settings[setting_names[i]]]]]

\* the try / except KeyError block of Atmos.__init__
psd_try(all_settings, settings) ==
    IF "psd_name" \notin DOMAIN all_settings THEN None
    ELSE LET r == psd_setup(all_settings["psd_name"], settings)
         IN  IF r.KeyError THEN None ELSE r.psd

\* the dict a of Atmos.__screen_method_input after k passes of its loop
RECURSIVE input_dict(_, _, _, _, _, _)
input_dict(n_gridpts, psd, settings, dx_sampling, r0s, k) ==
    IF k = 0 THEN Merge(("N" :> n_gridpts) @@ ("psd" :> psd), settings)
    ELSE Merge(("dx" :> dx_sampling[k - 1]) @@ ("r0" :> r0s[k - 1]),
               input_dict(n_gridpts, psd, settings, dx_sampling, r0s, k - 1))

\* the inputs yielded for screen k (keys is the list of the screen method)
screen_method_input(keys, n_gridpts, psd, settings, dx_sampling, r0s, k) ==
    LET a == input_dict(n_gridpts, psd, settings, dx_sampling, r0s, k + 1)
    IN  [key \in Range(keys) |-> a[key]]

Outcome(st, e, obj, cs) ==
    [status |-> st, err |-> e, atm |-> obj, calls |-> cs]

\* Atmos.__init__.  synthOk: whether the screen-synthesis function (module
\* phase_screen) returns when it is handed psd = None.
AtmosInit(n_gridpts, z, dx_0, dx_n, all_settings, synthOk) ==
    LET last == Len0(z) - 1
        prop_frac == [k \in DOMAIN z |-> RatDiv(RatInt(z[k]), RatInt(z[last]))]
        dx_sampling == [k \in DOMAIN z |->
                          RatAdd(RatMul(RatInt(dx_n - dx_0), prop_frac[k]),
                                 RatInt(dx_0))]
        n_scr == Len0(z)
        name == all_settings["screen_method_name"]
        settings0 == Without(all_settings, {"screen_method_name", "psd_name"})
        psd == psd_try(all_settings, settings0)
        settings == IF name = "vacuum" THEN Merge(settings0, "r0" :> R0Inf)
                    ELSE settings0
        r0s == [k \in 0..(n_scr - 1) |-> R0Screen(settings["r0"], n_scr)]
        keys == phase_screen_input_dict[name]
        a == input_dict(n_gridpts, psd, settings, dx_sampling, r0s, 1)
        call(k) == [method |-> name,
                    inputs |-> screen_method_input(keys, n_gridpts, psd,
                                   settings, dx_sampling, r0s, k)]
        obj == [n_gridpts |-> n_gridpts, screen_locations |-> z,
                dx_sampling |-> dx_sampling, n_scr |-> n_scr,
                screen_method_name |-> name, settings |-> settings,
                psd |-> psd, r0s |-> r0s,
                screen |-> [k \in 0..(n_scr - 1) |-> call(k)]]
    IN  IF "screen_method_name" \notin DOMAIN all_settings
        THEN Outcome("raised", "screen_method_name", <<>>, <<>>)
        ELSE IF name \notin screen_method_dict
        THEN Outcome("raised", name, <<>>, <<>>)
        ELSE IF "r0" \notin DOMAIN settings
        THEN Outcome("raised", "r0", <<>>, <<>>)
        ELSE IF \E i \in DOMAIN keys : keys[i] \notin DOMAIN a
        THEN Outcome("raised",
                     keys[CHOOSE i \in DOMAIN keys :
                            /\ keys[i] \notin DOMAIN a
                            /\ \A j \in 1..(i - 1) : keys[j] \in DOMAIN a],
                     <<>>, <<>>)
        ELSE IF ~synthOk
        THEN Outcome("raised", "TypeError", <<>>, << call(0) >>)
        ELSE Outcome("constructed", "none", obj,
                     [k \in 1..n_scr |-> call(k - 1)])

(***************************************************************************)
(* The Atmos state machine: a constructor call with its arguments chosen,  *)
(* the constructor itself, and the accessors of a constructed object.      *)
(***************************************************************************)
SettingKeys == {"psd_name", "r0", "L0", "l0", "n_subharm"}
MethodNames == screen_method_dict \cup {"no_such_method"}
PsdNames == psd_dict \cup {"no_such_psd"}

SettingsOf(present, method, psd_name, r0) ==
    [k \in present \cup {"screen_method_name"} |->
        CASE k = "screen_method_name" -> method
          [] k = "psd_name" -> psd_name
          [] k = "r0" -> R0(r0)
          [] k = "L0" -> 100
          [] k = "l0" -> 1
          [] k = "n_subharm" -> 3]

\* whether phase_screen's function returns: not known from this source when
\* it is handed psd = None, so both outcomes are possible then
SynthOutcomes(all_settings) ==
    LET name == all_settings["screen_method_name"]
        own == Without(all_settings, {"screen_method_name", "psd_name"})
    IN  IF name \in {"ft", "ft_sh"} /\ psd_try(all_settings, own) = None
        THEN {TRUE, FALSE}
        ELSE {TRUE}

AtmosNew ==
    \E present \in SUBSET SettingKeys, method \in MethodNames,
       psd_name \in PsdNames, r0 \in 1..MaxR0, n \in 1..MaxScr,
       dx_0 \in 1..MaxPitch, dx_n \in 1..MaxPitch :
        /\ args = [n_gridpts |-> 2 * MaxHalfN,
                   z |-> [k \in 0..(n - 1) |-> k + 1],
                   dx_0 |-> dx_0, dx_n |-> dx_n,
                   settings |-> SettingsOf(present, method, psd_name, r0)]
        /\ status = "new"
        /\ atm = <<>> /\ calls = <<>> /\ err = "none"
        /\ wp = <<>> /\ ret = Return("None") /\ lastOp = Call("none", 0)

AtmosConstruct ==
    /\ status = "new"
    /\ \E synthOk \in SynthOutcomes(args.settings) :
          LET out == AtmosInit(args.n_gridpts, args.z, args.dx_0, args.dx_n,
                               args.settings, synthOk)
          IN  /\ status' = out.status
              /\ err' = out.err
              /\ atm' = out.atm
              /\ calls' = out.calls
    /\ lastOp' = Call("Atmos", 0)
    /\ UNCHANGED <<wp, ret, args>>

\* Atmos.__len__
AtmosLen ==
    /\ status = "constructed"
    /\ ret' = Return(Len0(atm.screen))
    /\ lastOp' = Call("__len__", 0)
    /\ UNCHANGED <<wp, atmVars>>

\* Atmos.__getitem__
AtmosGetItem(key) ==
    /\ status = "constructed"
    /\ key \in DOMAIN atm.screen
    /\ ret' = Return(atm.screen[key])
    /\ lastOp' = Call("__getitem__", key)
    /\ UNCHANGED <<wp, atmVars>>

AtmosNext ==
    \/ AtmosConstruct
    \/ AtmosLen
    \/ \E key \in 0..(MaxScr - 1) : AtmosGetItem(key)

(***************************************************************************)
(* The screen generators on grids of any size, even or odd.  (The         *)
(* propagators need an even N, see above.)                                 *)
(***************************************************************************)
ScreensNew ==
    \E simOption \in SimOptions, N \in 1..MaxGrid, NumScr \in 1..MaxScr,
       dx \in 1..MaxPitch, PropDist \in 1..MaxDist, r \in 1..MaxRytov :
        /\ wp = WavePyInit(simOption, N, NumScr, dx, PropDist, r * r, dx)
        /\ ret = Return("None")
        /\ lastOp = Call("__init__", 0)
        /\ status = "wavepy"
        /\ args = <<>> /\ atm = <<>> /\ calls = <<>> /\ err = "none"

ScreensNext ==
    \/ \E UserRytov \in 1..MaxRytov : SetCn2Rytov(UserRytov)
    \/ PhaseScreen
    \/ \E nsub \in {1, 5} : SubHarmonicComp(nsub)

(***************************************************************************)
(* Specifications: the whole program, and each object on its own.          *)
(***************************************************************************)
Init == WavePyNew \/ AtmosNew
Next == WavePyNext \/ AtmosNext
Spec == Init /\ [][Next]_vars

SpecWavePy == WavePyNew /\ [][WavePyNext]_vars
SpecAtmos == AtmosNew /\ [][AtmosNext]_vars
SpecScreens == ScreensNew /\ [][ScreensNext]_vars

(***************************************************************************)
(* Properties.                                                             *)
(***************************************************************************)

\* C1: for every NumScr >= 1 and every positive PropDist, the step lengths
\* dzProps built by the WavePy constructor sum to the path length PropDist.
C1_StepsSumToPropDist ==
    status = "wavepy" =>
        SumTo(wp.dzProps, wp.NumScr + 2) = RatInt(wp.PropDist)

\* C2: SamplingRatioBetweenScreen has exactly NumScr+2 entries, entry i is
\* pitch[i+1]/pitch[i], every entry is finite and strictly positive, and the
\* pitch starts at dx, ends at Rdx and never leaves the range between them.
C2_SamplingRatiosPositive ==
    status = "wavepy" =>
        LET ratio == wp.SamplingRatioBetweenScreen
            pitch == wp.PropSampling
            lo == IF wp.dx <= wp.Rdx THEN wp.dx ELSE wp.Rdx
            hi == IF wp.dx <= wp.Rdx THEN wp.Rdx ELSE wp.dx
        IN  /\ DOMAIN ratio = 0..(wp.NumScr + 1)
            /\ \A i \in DOMAIN ratio :
                  /\ ratio[i] = RatDiv(pitch[i + 1], pitch[i])
                  /\ RatFinite(ratio[i])
                  /\ RatPos(ratio[i])
            /\ pitch[0] = RatInt(wp.dx)
            /\ pitch[Len0(pitch) - 1] = RatInt(wp.Rdx)
            /\ \A i \in DOMAIN pitch :
                  RatLeq(RatInt(lo), pitch[i]) /\ RatLeq(pitch[i], RatInt(hi))

\* the constructor call has ended, with a known screen method
AtmosEnded ==
    /\ status \in {"constructed", "raised"}
    /\ args.settings["screen_method_name"] \in screen_method_dict

\* C3: constructing Atmos with a psd_name that is no recognized PSD variant
\* raises, for every screen method, before any screen-synthesis call is
\* made, and no Atmos object is returned.
C3_UnknownPsdRaises ==
    ( /\ AtmosEnded
      /\ "psd_name" \in DOMAIN args.settings
      /\ args.settings["psd_name"] \notin psd_dict )
    => (status = "raised" /\ calls = <<>>)

\* the parameters the selected PSD variant and screen method require
Required(all_settings) ==
    LET name == all_settings["screen_method_name"]
        psd_keys == IF /\ "psd_name" \in DOMAIN all_settings
                       /\ all_settings["psd_name"] \in DOMAIN psd_input_dict
                    THEN Range(psd_input_dict[all_settings["psd_name"]])
                    ELSE {}
    IN  psd_keys \cup (IF name \in {"ft", "ft_sh"} THEN {"r0"} ELSE {})
                 \cup (IF name = "ft_sh" THEN {"n_subharm"} ELSE {})

\* C4: constructing Atmos with a parameter required by the selected PSD
\* variant or screen method missing from the settings fails with an error
\* naming a missing key; it never yields an object.
C4_MissingParameterRaises ==
    ( /\ AtmosEnded
      /\ Required(args.settings) \ DOMAIN args.settings # {} )
    => ( /\ status = "raised"
         /\ err \in Required(args.settings) \ DOMAIN args.settings )

\* the pitch of plane k: (dx_n - dx_0) * z[k] / z[-1] + dx_0
PlanePitch(k) ==
    Rat((args.dx_n - args.dx_0) * args.z[k]
            + args.dx_0 * args.z[Len0(args.z) - 1],
        args.z[Len0(args.z) - 1])

\* C5: for every screen index k, the synthesis call that produces screen k
\* receives as its sampling pitch dx the pitch of plane k.
C5_ScreenGetsPlanePitch ==
    ( /\ status = "constructed"
      /\ args.settings["screen_method_name"] \in {"ft", "ft_sh"} )
    => \A k \in 0..(Len0(args.z) - 1) :
          calls[k + 1].inputs["dx"] = PlanePitch(k)

\* C6: for every screen index k, the r0 passed to the synthesis call that
\* produces screen k is the derived r0s[k] = r0_total / NumScr^(-3/5), the
\* same for every screen, not the overall r0 of the settings.
C6_ScreenGetsDerivedR0 ==
    ( /\ status = "constructed"
      /\ args.settings["screen_method_name"] \in {"ft", "ft_sh"} )
    => \A k \in 0..(Len0(args.z) - 1) :
          /\ calls[k + 1].inputs["r0"] = atm.r0s[k]
          /\ atm.r0s[k] = R0Screen(args.settings["r0"], Len0(args.z))

\* C7: after any sequence of SetCn2Rytov calls every derived turbulence
\* quantity equals the value the constructor's formulas give for the current
\* Cn2; in particular rytovVar = rytovNum^2.
C7_DerivedFollowCn2 ==
    ( status = "wavepy" /\ lastOp.name = "SetCn2Rytov" )
    => ( /\ wp.r0 = r0Of(wp.Cn2)
         /\ wp.r0scrn = r0scrnOf(wp.Cn2)
         /\ wp.log_ampl_var = log_ampl_varOf(wp.Cn2)
         /\ wp.phase_var = phase_varOf(wp.Cn2)
         /\ wp.rho_0 = rho_0Of(wp.Cn2)
         /\ wp.rytovNum = rytovNumOf(wp.Cn2)
         /\ wp.rytovVar = wp.rytovNum * wp.rytovNum )

\* C8: SplitStepProp(Uin, PhaseScreenStack) propagates the caller-supplied
\* field Uin: its output is computed from Uin, not from the stored Source.
C8_PropagatesCallerField ==
    ( status = "wavepy" /\ lastOp.name = "SplitStepProp"
      /\ ret.exc = "none" )
    => ret.value.base = lastOp.arg.Uin

\* C9: in every state reachable by public operations on a WavePy object,
\* the grid size N equals the side length of the stored Source field and of
\* the coordinate grids r1 and rR.
C9_GridSizeShared ==
    status = "wavepy" =>
        /\ wp.N = wp.Source.side
        /\ wp.N = wp.r1.side
        /\ wp.N = wp.rR.side

\* positions in ops of the multiplications by a screen transmittance
ScreenPositions(ops) == {i \in DOMAIN ops : ops[i].op = "screen"}

\* C10: one SplitStepProp run multiplies the field by the transmittance of
\* each screen 0..NumScr-1 exactly once, in increasing index order, with
\* exactly one diffraction step (forward transform, kernel, inverse
\* transform, window) between the multiplications of consecutive screens.
C10_EachScreenOnceInOrder ==
    ( status = "wavepy" /\ lastOp.name = "SplitStepProp"
      /\ ret.exc = "none" )
    => LET ops == ret.value.ops
           pos == ScreenPositions(ops)
       IN  /\ Cardinality(pos) = wp.NumScr
           /\ \A k \in 0..(wp.NumScr - 1) :
                 Cardinality({i \in pos : ops[i].idx = k}) = 1
           /\ \A i, j \in pos : i < j => ops[i].idx < ops[j].idx
           /\ \A i, j \in pos :
                 (i < j /\ ops[j].idx = ops[i].idx + 1)
                 => /\ j = i + 5
                    /\ ops[i + 1].op = "fft"
                    /\ ops[i + 2].op = "QuadPhaseFac"
                    /\ ops[i + 3].op = "ifft"
                    /\ ops[i + 4].op = "sg"

\* the diffraction kernels (QuadPhaseFac) of a run, in the order applied
Kernels(ops) == SelectSeq(ops, LAMBDA o : o.op = "QuadPhaseFac")

RECURSIVE SumDz(_)
SumDz(ks) == IF ks = <<>> THEN RatInt(0)
             ELSE RatAdd(ks[1].dz, SumDz(Tail(ks)))

\* C11: one propagation run (SplitStepProp or VacuumProp) performs exactly
\* NumScr+1 diffraction steps, each with the step length and sampling ratio
\* of its own geometry segment, and the step lengths used by the kernels sum
\* to the total path length.
C11_OneKernelPerSegment ==
    ( status = "wavepy" /\ lastOp.name \in {"SplitStepProp", "VacuumProp"}
      /\ ret.exc = "none" )
    => LET ks == Kernels(ret.value.ops)
       IN  /\ Len(ks) = wp.NumScr + 1
           /\ \A i \in DOMAIN ks :
                 /\ ks[i].dz = wp.dzProps[ks[i].idx]
                 /\ ks[i].ratio = wp.SamplingRatioBetweenScreen[ks[i].idx]
           /\ \A i, j \in DOMAIN ks : i < j => ks[i].idx < ks[j].idx
           /\ SumDz(ks) = RatInt(wp.PropDist)

\* C12: in a TurbSim run the factor multiplied into the field at screen k
\* is exp(i*phz_k), phz_k the real phase generated for screen k: the complex
\* exponential is applied exactly once, so the factor has unit modulus.
C12_TransmittanceExpOnce ==
    ( status = "wavepy" /\ lastOp.name = "TurbSim" /\ ret.exc = "none" )
    => \A i \in ScreenPositions(wp.Output.ops) :
          wp.Output.ops[i].factor = ExpI(Phase(wp.Output.ops[i].idx))

\* a SplitStepProp run on the stored Source with an all-zero phase stack
ZeroStackRun ==
    /\ status = "wavepy"
    /\ lastOp.name = "SplitStepProp"
    /\ lastOp.arg.Uin = wp.Source
    /\ lastOp.arg.PhaseScreenStack = ZeroStack(wp.N, wp.NumScr)

\* the operations of a run other than the multiplications by a screen
NonScreenOps(ops) == SelectSeq(ops, LAMBDA o : o.op # "screen")

\* C13: for every geometry and stored source, VacuumProp performs the same
\* sequence of field operations (initial quadratic phase; per step forward
\* transform, scaled kernel, inverse transform, window; closing quadratic
\* phase) as SplitStepProp run with an all-zero phase stack, whose screen
\* factors are all unity, and so returns the same output field.
C13_VacuumIsZeroStackRun ==
    ZeroStackRun =>
        LET vac == VacuumPropOf(wp)
        IN  /\ ret.exc = vac.exc
            /\ ret.exc = "none" =>
                  /\ NonScreenOps(ret.value.ops) = vac.value.ops
                  /\ \A i \in ScreenPositions(ret.value.ops) :
                        IsUnity(ret.value.ops[i].factor)
                  /\ FieldValue(ret.value) = FieldValue(vac.value)

C13_Witness ==
    /\ ZeroStackRun
    /\ ret.exc = "none"
    /\ wp.NumScr >= 2
    /\ ScreenPositions(ret.value.ops) # {}

\* C14: for every grid size N >= 1, even or odd, the single cell that
\* PhaseScreen forces to zero in the sampled PSD, (floor(N/2), floor(N/2)),
\* is the cell whose frequency is (0, 0); it is zero in the PSD that filters
\* the noise, being zeroed after the re-normalization, so no screen carries
\* a DC component.
C14_ZeroedCellIsDC ==
    ( status = "wavepy" /\ lastOp.name = "PhaseScreen" /\ ret.exc = "none" )
    => LET psd == ret.value.PSD_phi
           c == << cenOf(wp.N), cenOf(wp.N) >>
           DC == [fx |-> RatInt(0), fy |-> RatInt(0)]
       IN  /\ psd.side = wp.N
           /\ psd.zero = {c}
           /\ CellFreq(psd.side, c) = DC
           /\ psd.norm.applied /\ psd.norm.zeroedBefore = {}
           /\ \A cell \in Cells(psd.side) :
                 CellFreq(psd.side, cell) = DC => cell \in psd.zero

====
